---------------------------- MODULE Spec2Model ----------------------------
(***************************************************************************)
(* Objective-analysis facade of seapy (src/oa.py): oasurf and oavol, the   *)
(* two wrappers around the numerical routines seapy.oalib.oa2d / oa3d.     *)
(*                                                                         *)
(* Arrays are numpy arrays: a shape (sequence of dimensions) and the       *)
(* elements in C order.  The arrays the caller owns (the source values d,  *)
(* the source depths z, the weight map it kept from an earlier call) are   *)
(* state variables, so that a write through an alias (copy=False, an       *)
(* in/out argument) is visible as a change of the caller's array.          *)
(*                                                                         *)
(* seapy.oalib is compiled Fortran that is not part of the Python sources; *)
(* oa2d and oa3d are modelled from the specification (sections 4.2-4.6):   *)
(* K nearest source points by scaled distance, Gaussian weights, weighted  *)
(* mean over the valid neighbours.                                         *)
(***************************************************************************)
EXTENDS Integers, Sequences, FiniteSets, TLC

VARIABLES
    x,      \* caller's source x coordinates (ndarray)
    y,      \* caller's source y coordinates
    xx,     \* caller's destination x coordinates
    yy,     \* caller's destination y coordinates
    src,    \* caller's array that the last call normalised: the source
            \* values d of oasurf, the source depths z of oavol
    saved,  \* the caller's weight-map variable
    last,   \* what the last call was given, did and returned
    gen,    \* the last construction of an obsgen object: arguments, outcome
    batch   \* the run of obsgen.batch_files in progress

vars == <<x, y, xx, yy, src, saved, last, gen, batch>>

(***************************************************************************)
(* Bounds of the model and constants of the program.                       *)
(***************************************************************************)
MaxK == 2
MaxScale == 2
MaxLev == 2

\* A non-finite float (NaN or Inf), as np.isfinite tells it apart; every
\* finite value of the model is >= 0.
NaN == -1
fill_value == -999999


(***************************************************************************)
(* numpy arrays.                                                           *)
(***************************************************************************)
RECURSIVE Prod(_)
Prod(s) == IF s = <<>> THEN 1 ELSE Head(s) * Prod(Tail(s))

Arr(shape, flat) == [shape |-> shape, flat |-> flat]

size(a) == Prod(a.shape)

\* a.ravel(): the elements in C order as a 1-D array
ravel(a) == Arr(<<Len(a.flat)>>, a.flat)

\* a.reshape(shp): same elements, new shape (the sizes must agree)
reshape(a, shp) == Arr(shp, a.flat)

\* a.reshape(a.shape[0], -1)
reshape_rows(a) == reshape(a, <<a.shape[1], size(a) \div a.shape[1]>>)

\* a.transpose() of a 2-D array: element (j, i) of the result is (i, j) of a
transpose(a) ==
    LET r == a.shape[1]
        c == a.shape[2]
    IN  Arr(<<c, r>>,
            [p \in 1..(r * c) |->
                LET j == ((p - 1) \div r) + 1
                    i == ((p - 1) % r) + 1
                IN  a.flat[(i - 1) * c + j]])

\* np.zeros(shp): raises ValueError on a negative dimension
zeros_ok(shp) == \A i \in 1..Len(shp) : shp[i] >= 0
zeros(shp) == Arr(shp, [p \in 1..Prod(shp) |-> 0])

\* ones(shp)
ones(shp) == Arr(shp, [p \in 1..Prod(shp) |-> 1])

(***************************************************************************)
(* np.ma.fix_invalid(a, copy=False, fill_value=-999999.0): the masked      *)
(* array shares a's buffer; every non-finite element is masked and the     *)
(* fill value is written over it in that buffer.                           *)
(***************************************************************************)
fix_invalid_nofill(a) ==
    [shape |-> a.shape,
     data  |-> a.flat,
     mask  |-> [p \in 1..Len(a.flat) |-> a.flat[p] = NaN]]

fix_invalid(a) ==
    [shape |-> a.shape,
     data  |-> [p \in 1..Len(a.flat) |->
                   IF a.flat[p] = NaN THEN fill_value ELSE a.flat[p]],
     mask  |-> [p \in 1..Len(a.flat) |-> a.flat[p] = NaN]]

\* the buffer of a masked array (.data), which is what a compiled routine
\* sees of it
data_of(m) == Arr(m.shape, m.data)

(***************************************************************************)
(* seapy.oalib (compiled Fortran).  Modelled from the specification:       *)
(*   4.2  neighbours: the K nearest source points by the distance          *)
(*        sqrt((dx/nx)^2 + (dy/ny)^2), fewer when fewer exist;             *)
(*   4.3  weight exp(-dist^2), 1 at zero separation;                       *)
(*   4.4  one weight-map row per destination point, built from the         *)
(*        geometry alone;                                                  *)
(*   4.5  weighted mean over the valid neighbours, invalid when none.      *)
(* The weight map holds, per destination point, the 1-based indices of its *)
(* neighbours (0: no neighbour); an all-zero map is one not built yet.     *)
(* Values reach the routine as plain floats: a masked array is passed as   *)
(* its buffer, so the fill value is the invalid-value convention.          *)
(***************************************************************************)

\* 1000 * exp(-q/4), q = 0, 1, ...
ExpTable == <<1000, 779, 607, 472, 368, 287, 223, 174, 135,
              105, 82, 64, 50, 39, 30, 24, 18>>

\* dist^2 = num / den with den = (nx*ny)^2
dist2num(xs, ys, xd, yd, i, j, nx, ny) ==
    ((xs[j] - xd[i]) * ny) * ((xs[j] - xd[i]) * ny)
  + ((ys[j] - yd[i]) * nx) * ((ys[j] - yd[i]) * nx)

\* the covariance weight, in thousandths, of a squared distance num/den
covariance(num, den) ==
    LET q == (4 * num) \div den
    IN  IF q + 1 <= Len(ExpTable) THEN ExpTable[q + 1] ELSE 1

\* source j is nearer to destination i than source j2 (ties: lower index)
nearer(xs, ys, xd, yd, i, j, j2, nx, ny) ==
    LET a == dist2num(xs, ys, xd, yd, i, j, nx, ny)
        b == dist2num(xs, ys, xd, yd, i, j2, nx, ny)
    IN  a < b \/ (a = b /\ j < j2)

\* the k-th nearest source point of destination i, 0 when there is none
neighbor(xs, ys, xd, yd, i, k, nx, ny) ==
    LET n == Len(xs)
    IN  IF k > n THEN 0
        ELSE CHOOSE j \in 1..n :
                 Cardinality({j2 \in 1..n :
                     nearer(xs, ys, xd, yd, i, j2, j, nx, ny)}) = k - 1

\* 4.4: the weight map of a geometry, m rows of K neighbour indices
build_weight_map(xs, ys, xd, yd, K, nx, ny) ==
    LET m == Len(xd)
    IN  Arr(<<m, K>>,
            [p \in 1..(m * K) |->
                neighbor(xs, ys, xd, yd, ((p - 1) \div K) + 1,
                         ((p - 1) % K) + 1, nx, ny)])

unbuilt(pmap) == \A p \in 1..Len(pmap.flat) : pmap.flat[p] = 0

\* the sum of f[k] over k in S, added to acc
RECURSIVE SumOver(_, _, _)
SumOver(S, f, acc) ==
    IF S = {} THEN acc
    ELSE LET k == CHOOSE e \in S : TRUE
         IN  SumOver(S \ {k}, f, acc + f[k])

\* 4.5: the estimate at destination i from row i of the weight map and the
\* values vals (a sequence over the source points): the weighted mean of the
\* neighbours whose value is not the fill value; not a number when there is
\* none, when a scale is not positive (a division by zero) or when a value
\* that takes part is itself not a number
estimate(xs, ys, vals, xd, yd, i, nx, ny, pmap) ==
    LET K      == pmap.shape[2]
        nb(k)  == pmap.flat[(i - 1) * K + k]
        usable == {k \in 1..K : nb(k) # 0 /\ vals[nb(k)] # fill_value}
        w      == [k \in usable |->
                      covariance(dist2num(xs, ys, xd, yd, i, nb(k), nx, ny),
                                 (nx * ny) * (nx * ny))]
        wv     == [k \in usable |-> w[k] * vals[nb(k)]]
    IN  IF usable = {} THEN NaN
        ELSE IF nx <= 0 \/ ny <= 0 THEN NaN
        ELSE IF \E k \in usable : vals[nb(k)] = NaN THEN NaN
        ELSE SumOver(usable, wv, 0) \div SumOver(usable, w, 0)

\* the argument checks of the compiled interface: equally long coordinate
\* and value arrays, a map of (destination points x K)
dims_ok(xs, ys, n, xd, yd, pmap) ==
    /\ Len(xs) = n /\ Len(ys) = n
    /\ Len(xd) = Len(yd)
    /\ Len(pmap.shape) = 2
    /\ pmap.shape[1] = Len(xd)

\* the error field that goes with an estimate
error_of(vv) == Arr(vv.shape, [p \in 1..Len(vv.flat) |->
                                  IF vv.flat[p] = NaN THEN NaN ELSE 0])

oa_out(vv, pm) == [ok |-> TRUE, vv |-> vv, err |-> error_of(vv), pmap |-> pm]

oa_fail(pm) == [ok |-> FALSE, vv |-> zeros(<<0>>), err |-> zeros(<<0>>),
                pmap |-> pm]

\* the apply step over a built map
oa2d_apply(xs, ys, vals, xd, yd, nx, ny, pmap) ==
    CHOOSE r \in
      { oa_out(Arr(<<Len(xd)>>,
                   [i \in 1..Len(xd) |->
                       estimate(xs, ys, vals, xd, yd, i, nx, ny, pm)]),
               pm) : pm \in {pmap} } : TRUE

\* oa2d(x, y, d, xx, yy, nx, ny, pmap) -> vv, err; pmap is in/out: a map not
\* built yet is built in place, a built one is only read
oa2d(xs, ys, ds, xd, yd, nx, ny, pmap) ==
    IF ~dims_ok(xs.flat, ys.flat, Len(ds.flat), xd.flat, yd.flat, pmap)
    THEN oa_fail(pmap)
    ELSE CHOOSE r \in
           { oa2d_apply(a, b, vals, e, f, nx, ny,
                        IF unbuilt(pm)
                        THEN build_weight_map(a, b, e, f, pm.shape[2], nx, ny)
                        ELSE pm) :
               a \in {xs.flat}, b \in {ys.flat}, vals \in {ds.flat},
               e \in {xd.flat}, f \in {yd.flat}, pm \in {pmap} } : TRUE

\* level l of a (points x levels) array
level(a, l) == [j \in 1..a.shape[1] |-> a.flat[(j - 1) * a.shape[2] + l]]

\* oa3d(x, y, z, v, xx, yy, zz, nx, ny, pmap) -> vv, err; z and v are
\* (points x levels), vv is (destination points x levels): the apply step
\* of 4.5 per level with the one horizontal map, which is only read
oa3d(xs, ys, zs, vs, xd, yd, zd, nx, ny, pmap) ==
    IF \/ ~dims_ok(xs.flat, ys.flat, vs.shape[1], xd.flat, yd.flat, pmap)
       \/ zs.shape # vs.shape
       \/ zd.shape # <<Len(xd.flat), vs.shape[2]>>
    THEN oa_fail(pmap)
    ELSE CHOOSE r \in
           { oa_out(Arr(<<Len(e), L>>,
                        [p \in 1..(Len(e) * L) |->
                            estimate(a, b, lev[((p - 1) % L) + 1], e, f,
                                     ((p - 1) \div L) + 1, nx, ny, pm)]),
                    pm) :
               a \in {xs.flat}, b \in {ys.flat}, e \in {xd.flat},
               f \in {yd.flat}, pm \in {pmap}, L \in {vs.shape[2]},
               lev \in {[l \in 1..vs.shape[2] |-> level(vs, l)]} } : TRUE

(***************************************************************************)
(* src/oa.py.  A call's record: how it ended (outcome), what it did in     *)
(* order (trace), the scale pair it handed to the numerical routine        *)
(* (scale), the estimate it returned (est), the weight map it returned     *)
(* (pmap), whether that map is an array the call allocated (fresh) or the  *)
(* caller's own, and the caller's value array after the call (src).        *)
(***************************************************************************)

\* the names bound in the module's namespace when oavol runs
module_names == {"print_function", "np", "seapy", "oasurf", "oavol"}

NoArr == Arr(<<0>>, <<>>)
NoEst == [shape |-> <<0>>, data |-> <<>>, mask |-> <<>>]

\* lines 48-49 and 101-102
scales_asgiven(nx, ny) == <<nx, ny>>

scales(nx, ny) ==
    LET nx1 == IF nx = 0 THEN ny ELSE nx
        ny1 == IF ny = 0 THEN nx1 ELSE ny
    IN  <<nx1, ny1>>

\* lines 53-54 and 106-107: the map the numerical routine works on
map_arg_fresh(given, pmap, m, weight) ==
    [fresh |-> TRUE, arr |-> zeros(<<m, weight>>)]

map_arg(given, pmap, m, weight) ==
    IF given THEN [fresh |-> FALSE, arr |-> pmap]
    ELSE [fresh |-> TRUE, arr |-> zeros(<<m, weight>>)]

\* lines 61-62: the estimate reshaped to the destination's shape
surf_result_flat(vv, dst) == fix_invalid(vv)

surf_result(vv, dst) == fix_invalid(reshape(vv, dst.shape))

\* lines 121-122: the estimate reshaped to the destination depths' shape
vol_result(vv, zz) == fix_invalid(reshape(transpose(vv), zz.shape))

Raise(what, tr, sc, srcAfter, pm) ==
    [outcome |-> what, trace |-> tr, scale |-> sc, est |-> NoEst,
     pmap |-> pm.arr, fresh |-> pm.fresh, src |-> srcAfter]

Return(tr, sc, est, srcAfter, pmap, fresh) ==
    [outcome |-> "return", trace |-> tr, scale |-> sc, est |-> est,
     pmap |-> pmap, fresh |-> fresh, src |-> srcAfter]

NoMap == [fresh |-> TRUE, arr |-> NoArr]

Alloc(pm) == IF pm.fresh THEN <<"alloc">> ELSE <<>>

\* lines 56-62 of oasurf
oasurf_map(r, pm, sc, d1, dx) ==
    IF ~r.ok
    THEN Raise("error", Append(Alloc(pm), "oa2d"), sc, d1,
               [pm EXCEPT !.arr = r.pmap])
    ELSE Return(Append(Alloc(pm), "oa2d"), sc, surf_result(r.vv, dx), d1,
                r.pmap, pm.fresh)

\* lines 52-62 of oasurf: d1 is the caller's array as line 50 left it, xs, ys
\* and ds are what is passed on of the source, sc is the normalised scale pair
oasurf_call(xs, ys, ds, d1, dx, dy, pm, sc) ==
    CHOOSE ret \in
      { oasurf_map(r, pm, sc, d1, dx) :
          r \in {oa2d(xs, ys, ds, ravel(dx), ravel(dy), sc[1], sc[2],
                      pm.arr)} } : TRUE

\* a[~mask] of a 1-D array: the elements at the unmasked places
RECURSIVE compress(_, _)
compress(flat, mask) ==
    IF flat = <<>> THEN <<>>
    ELSE IF Head(mask) THEN compress(Tail(flat), Tail(mask))
    ELSE <<Head(flat)>> \o compress(Tail(flat), Tail(mask))

compressed(a, mask) ==
    Arr(<<Len(compress(a.flat, mask))>>, compress(a.flat, mask))

\* oasurf with the invalid source points dropped before the map is built
oasurf_valid_only(sx, sy, sd, dx, dy, given, pmap, weight, nx, ny) ==
    IF ~given /\ ~zeros_ok(<<size(dx), weight>>)
    THEN Raise("ValueError", <<>>, scales(nx, ny),
               data_of(fix_invalid(sd)), NoMap)
    ELSE CHOOSE ret \in
           { oasurf_call(compressed(sx, dm.mask), compressed(sy, dm.mask),
                         compressed(sd, dm.mask), data_of(dm), dx, dy, pm,
                         sc) :
               dm \in {fix_invalid(sd)},
               pm \in {map_arg(given, pmap, size(dx), weight)},
               sc \in {scales(nx, ny)} } : TRUE

\* oasurf with the scales normalised only where the map is built
oasurf_late_scales(sx, sy, sd, dx, dy, given, pmap, weight, nx, ny) ==
    IF ~given /\ ~zeros_ok(<<size(dx), weight>>)
    THEN Raise("ValueError", <<>>, scales(nx, ny),
               data_of(fix_invalid(sd)), NoMap)
    ELSE CHOOSE ret \in
           { oasurf_call(ravel(sx), ravel(sy), ravel(d1), d1, dx, dy, pm,
                         sc) :
               d1 \in {data_of(fix_invalid(sd))},
               pm \in {map_arg(given, pmap, size(dx), weight)},
               sc \in {IF given THEN <<nx, ny>> ELSE scales(nx, ny)} } : TRUE

\* oasurf(x, y, d, xx, yy, pmap, weight, nx, ny); given: pmap is not None
oasurf(sx, sy, sd, dx, dy, given, pmap, weight, nx, ny) ==
    IF ~given /\ ~zeros_ok(<<size(dx), weight>>)
    THEN Raise("ValueError", <<>>, scales(nx, ny),
               data_of(fix_invalid(sd)), NoMap)
    ELSE CHOOSE ret \in
           { oasurf_call(ravel(sx), ravel(sy), ravel(d1), d1, dx, dy, pm,
                         sc) :
               d1 \in {data_of(fix_invalid(sd))},
               pm \in {map_arg(given, pmap, size(dx), weight)},
               sc \in {scales(nx, ny)} } : TRUE

\* lines 112-122 of oavol
oavol_map(r, tr, pm, sc, z1, dz) ==
    IF ~r.ok
    THEN Raise("error", Append(tr, "oa3d"), sc, z1, pm)
    ELSE Return(Append(tr, "oa3d"), sc, vol_result(r.vv, dz), z1, pm.arr,
                pm.fresh)

\* lines 108-122 of oavol: b is the build step's outcome (lines 109-110),
\* run only on a map the call allocated
oavol_call(sx, sy, z1, sv, dx, dy, dz, pm, b, sc) ==
    IF ~b.ok
    THEN Raise("error", Append(Alloc(pm), "oa2d"), sc, z1, pm)
    ELSE CHOOSE ret \in
           { oavol_map(r, IF pm.fresh THEN <<"alloc", "oa2d">> ELSE <<>>,
                       [pm EXCEPT !.arr = b.pmap], sc, z1, dz) :
               r \in {oa3d(ravel(sx), ravel(sy),
                           transpose(reshape_rows(z1)),
                           transpose(reshape_rows(sv)),
                           ravel(dx), ravel(dy),
                           transpose(reshape_rows(dz)),
                           sc[1], sc[2], b.pmap)} } : TRUE

\* oavol(x, y, z, v, xx, yy, zz, pmap, weight, nx, ny)
oavol(sx, sy, sz, sv, dx, dy, dz, given, pmap, weight, nx, ny) ==
    IF ~given /\ ~zeros_ok(<<size(dx), weight>>)
    THEN Raise("ValueError", <<>>, scales(nx, ny),
               data_of(fix_invalid(sz)), NoMap)
    ELSE IF ~given /\ "ones" \notin module_names
    THEN Raise("NameError", <<"alloc">>, scales(nx, ny),
               data_of(fix_invalid(sz)),
               map_arg(given, pmap, size(dx), weight))
    ELSE CHOOSE ret \in
           { oavol_call(sx, sy, z1, sv, dx, dy, dz, pm, b, sc) :
               z1 \in {data_of(fix_invalid(sz))},
               pm \in {map_arg(given, pmap, size(dx), weight)},
               sc \in {scales(nx, ny)},
               b \in { IF given THEN oa_out(NoArr, pmap)
                       ELSE oa2d(ravel(sx), ravel(sy), ones(sx.shape),
                                 ravel(dx), ravel(dy),
                                 scales(nx, ny)[1], scales(nx, ny)[2],
                                 zeros(<<size(dx), weight>>)) } } : TRUE

(***************************************************************************)
(* src/roms/obsgen.py: class obsgen and its instrument converters.         *)
(***************************************************************************)

\* the names bound in the module's namespace (imports and classes)
obsgen_names ==
    {"print_function", "np", "netCDF4", "seapy", "datetime", "warn",
     "obsgen", "aquarius_sss", "argo_ctd", "aviso_sla_map", "ostia_sst_map",
     "seaglider_profile", "tao_mooring"}

Converters == {"aquarius_sss", "argo_ctd", "aviso_sla_map", "ostia_sst_map",
               "seaglider_profile", "tao_mooring"}

Classes == {"obsgen"} \cup Converters

\* the keyword parameters of a converter's __init__ besides grid, dt, reftime
init_keywords(cls) ==
    CASE cls = "aquarius_sss"      -> {"salt_limits", "salt_error"}
      [] cls = "argo_ctd"          -> {"temp_limits", "salt_limits",
                                       "temp_error", "salt_error"}
      [] cls = "aviso_sla_map"     -> {"ssh_mean", "ssh_error"}
      [] cls = "ostia_sst_map"     -> {"temp_error", "temp_limits"}
      [] cls = "seaglider_profile" -> {"temp_limits", "salt_limits",
                                       "depth_limit", "temp_error",
                                       "salt_error"}
      [] cls = "tao_mooring"       -> {"temp_limits", "salt_limits",
                                       "u_limits", "v_limits", "depth_limit",
                                       "temp_error", "salt_error", "u_error",
                                       "v_error"}
      [] OTHER                     -> {}

\* the local names of __init__
init_locals(cls) == {"self", "grid", "dt", "reftime"} \cup init_keywords(cls)

\* the names a converter's __init__ passes on in super().__init__(...)
super_args(cls) == <<"grid", "dt", "epoch">>

\* name lookup inside __init__: a local or a name of the module
bound(name, cls) == name \in init_locals(cls) \cup obsgen_names

\* the value of a positional parameter of __init__
arg_value(name, grid, dt, reftime) ==
    CASE name = "grid"    -> grid
      [] name = "dt"      -> dt
      [] name = "reftime" -> reftime

\* a grid argument is a grid or the name of a grid file
GridFile(name)  == [kind |-> "str", name |-> name]
GridOf(name)    == [kind |-> "grid", name |-> name]
NoGrid          == [kind |-> "none", name |-> ""]

\* seapy.model.asgrid(grid): the grid itself, or the grid loaded from a file
asgrid(g) == IF g.kind = "str" THEN GridOf(g.name) ELSE g

\* seapy.default_epoch, and another reference time (years)
default_epoch == 2000
other_epoch   == 1970

NoObj == [cls |-> "none", attrs |-> {}, grid |-> NoGrid, dt |-> 0, epoch |-> 0]

\* obsgen.__init__(self, grid, dt, reftime)
obsgen_init(self, grid, dt, reftime) ==
    [self EXCEPT !.grid = asgrid(grid), !.dt = dt, !.epoch = reftime]

\* cls(grid, dt, reftime=reftime): a converter sets its own attributes from
\* its keywords, then calls super().__init__ with the names of super_args
construct(cls, grid, dt, reftime) ==
    IF cls = "obsgen"
    THEN [outcome |-> "ok",
          obj |-> obsgen_init([NoObj EXCEPT !.cls = cls], grid, dt, reftime)]
    ELSE IF \E p \in 1..Len(super_args(cls)) : ~bound(super_args(cls)[p], cls)
    THEN [outcome |-> "NameError", obj |-> NoObj]
    ELSE [outcome |-> "ok",
          obj |-> obsgen_init(
                    [NoObj EXCEPT !.cls = cls, !.attrs = init_keywords(cls)],
                    arg_value(super_args(cls)[1], grid, dt, reftime),
                    arg_value(super_args(cls)[2], grid, dt, reftime),
                    arg_value(super_args(cls)[3], grid, dt, reftime))]

NoGen == [cls |-> "none", grid |-> NoGrid, dt |-> 0, reftime |-> 0,
          outcome |-> "none", obj |-> NoObj]

(***************************************************************************)
(* obsgen.batch_files(in_files, out_files).  A raw file is known by its    *)
(* position in in_files (its name) and by what converting and writing it   *)
(* does:                                                                   *)
(*   "obs"       converts to observations that can be written              *)
(*   "readonly"  converts, but writing the result raises (IOError)         *)
(*   "empty"     converts to None                                          *)
(*   "corrupt"   the conversion raises an Exception                        *)
(*   "interrupt" the conversion is interrupted (KeyboardInterrupt, not an  *)
(*               Exception)                                                *)
(***************************************************************************)
FileKinds == {"obs", "readonly", "empty", "corrupt", "interrupt"}

RawFile(k, kind) == [name |-> k, kind |-> kind]

\* the receiver of batch_files: the base class, whose convert_file is a
\* stub, or a subclass that overrides convert_file
Receivers == {"obsgen", "converter"}

\* names of output files, and out_files given as one name with a '#'
OutNames == <<"a.nc", "b.nc", "c.nc", "d.nc", "e.nc">>
Template == <<"out_", "#", ".nc">>

\* "{:05d}".format(i)
Digits == <<"00000", "00001", "00002", "00003", "00004", "00005">>
format05d(i) == Digits[i + 1]

\* int(t) of a time t kept in tenths of a day
int_of(t) == t \div 10

\* time.sub(repl, string): every '#' of string replaced by repl
sub(repl, string) ==
    [i \in 1..Len(string) |-> IF string[i] = "#" THEN repl ELSE string[i]]

NoObs == [none |-> TRUE, exc |-> "none", file |-> 0, time |-> <<>>]

\* self.convert_file(file): None from the stub of the base class; from a
\* subclass, observations (with their times), None, or an exception
convert_file(cls, file) ==
    IF cls = "obsgen" THEN NoObs
    ELSE CASE file.kind = "empty"     -> NoObs
           [] file.kind = "corrupt"   -> [NoObs EXCEPT !.exc = "Exception"]
           [] file.kind = "interrupt" ->
                  [NoObs EXCEPT !.exc = "KeyboardInterrupt"]
           [] OTHER -> [none |-> FALSE, exc |-> "none", file |-> file.name,
                        time |-> <<10 * file.name + 5>>]

\* obs.to_netcdf(target), for the observations of file
to_netcdf(file) == IF file.kind = "readonly" THEN "IOError" ELSE "none"

\* the outcome of one pass through the try block (lines 98-106): the
\* exception it ends with ("none": none) and the file it wrote, if any
Passed(exc, wrote) == [exc |-> exc, wrote |-> wrote]

try_body(cls, file, n, out) ==
    LET obs == convert_file(cls, file)
    IN  IF obs.exc # "none" THEN Passed(obs.exc, <<>>)
        ELSE IF obs.none THEN Passed("none", <<>>)
        ELSE IF out.str
        THEN IF to_netcdf(file) # "none"
             THEN Passed(to_netcdf(file), <<>>)
             ELSE Passed("none",
                         <<sub(format05d(int_of(obs.time[1])), out.name)>>)
        ELSE IF n > Len(out.list) THEN Passed("IndexError", <<>>)
        ELSE IF to_netcdf(file) # "none" THEN Passed(to_netcdf(file), <<>>)
        ELSE Passed("none", <<out.list[n]>>)

\* an except clause naming Exception
caught_Exception(exc) == exc # "KeyboardInterrupt"

\* line 107, `except:`: every exception is caught
caught(exc) == TRUE

NoOut == [str |-> FALSE, name |-> <<>>, list |-> <<>>]

NoBatch == [pc |-> "idle", cls |-> "none", in_files |-> <<>>, out |-> NoOut,
            n |-> 1, printed |-> <<>>, written |-> <<>>, warned |-> <<>>]

\* batch_files up to the loop (lines 89-96)
batch_enter(cls, in_files, out) ==
    [NoBatch EXCEPT !.pc = "loop", !.cls = cls, !.in_files = in_files,
                    !.out = out]

\* one iteration of the loop (lines 97-108) on file number b.n
batch_iterate(b) ==
    LET file == b.in_files[b.n]
        r    == try_body(b.cls, file, b.n, b.out)
        b1   == [b EXCEPT !.printed = Append(@, file.name),
                          !.written = @ \o [i \in 1..Len(r.wrote) |->
                                    [file |-> file.name, target |-> r.wrote[i]]]]
    IN  IF r.exc = "none" THEN [b1 EXCEPT !.n = @ + 1]
        ELSE IF caught(r.exc)
        THEN [b1 EXCEPT !.n = @ + 1, !.warned = Append(@, file.name)]
        ELSE [b1 EXCEPT !.pc = "raised"]

(***************************************************************************)
(* The caller.  It holds a source and a destination geometry, a value      *)
(* array d and a depth array z that it fills before each call, and one     *)
(* weight-map variable: empty when it calls without a map, and holding     *)
(* what the call returned afterwards.  A map is supplied only with the     *)
(* geometry, neighbour count and scales it was built for.                  *)
(***************************************************************************)

\* source geometries: x and y of one shape
SrcGeoms ==
    { [x |-> Arr(<<0>>, <<>>),        y |-> Arr(<<0>>, <<>>)],
      [x |-> Arr(<<1, 2>>, <<1, 0>>), y |-> Arr(<<1, 2>>, <<0, 1>>)] }

\* destination geometries: xx and yy of one shape
DstGeoms ==
    { [x |-> Arr(<<2>>, <<0, 1>>),    y |-> Arr(<<2>>, <<0, 1>>)],
      [x |-> Arr(<<2, 1>>, <<0, 1>>), y |-> Arr(<<2, 1>>, <<0, 0>>)] }

\* arrays of a shape shp by their elements
AllValid(shp)  == Arr(shp, [p \in 1..Prod(shp) |-> 10 * p])
FirstBad(shp)  == Arr(shp, [p \in 1..Prod(shp) |-> IF p = 1 THEN NaN ELSE 20])
AllBad(shp)    == Arr(shp, [p \in 1..Prod(shp) |-> NaN])
Ten(shp)       == Arr(shp, [p \in 1..Prod(shp) |-> 10])
Depth(shp)     == Arr(shp, [p \in 1..Prod(shp) |-> 5])
FirstDeep(shp) == Arr(shp, [p \in 1..Prod(shp) |-> IF p = 1 THEN NaN ELSE 5])

\* the value arrays a caller passes for a source of shape shp: one value per
\* source point, or (a caller's mistake) an array one element too long
SrcValues(shp) ==
    { AllValid(shp), FirstBad(shp), AllBad(shp),
      Ten(<<Prod(shp) + 1>>) }

\* the (depths, values) pairs a caller passes to oavol: levels x source shape
VolData(shp) ==
    { [z |-> Depth(<<1>> \o shp),
       v |-> FirstBad(<<1>> \o shp)],
      [z |-> FirstDeep(<<MaxLev>> \o shp),
       v |-> AllValid(<<MaxLev>> \o shp)] }

\* destination depths: levels x destination shape
DstDepths(L, shp) == Depth(<<L>> \o shp)

NoSaved == [has |-> FALSE, K |-> 0, nx |-> 0, ny |-> 0, map |-> NoArr,
            clean |-> FALSE]

NoCall == [op |-> "none", given |-> FALSE, weight |-> 0, nx |-> 0, ny |-> 0,
           v |-> NoArr, zz |-> <<>>,
           outcome |-> "none", trace |-> <<>>, scale |-> <<0, 0>>,
           est |-> NoEst, pmap |-> NoArr, fresh |-> FALSE,
           src_before |-> NoArr,
           map_before |-> NoArr, map_after |-> NoArr,
           prev_same |-> FALSE, prev_clean |-> FALSE, prev_map |-> NoArr]

Init ==
    /\ \E g \in SrcGeoms : x = g.x /\ y = g.y
    /\ \E g \in DstGeoms : xx = g.x /\ yy = g.y
    /\ src = NoArr
    /\ saved = NoSaved
    /\ last = NoCall
    /\ gen = NoGen
    /\ batch = NoBatch

AllFinite(a) == \A p \in 1..Len(a.flat) : a.flat[p] # NaN

SameKey(weight, nx, ny) ==
    saved.has /\ saved.K = weight /\ saved.nx = nx /\ saved.ny = ny

\* the caller's map variable after a call: the array it supplied, as the call
\* left it, or the map the call returned, or nothing when the call raised
Keep(given, r, weight, nx, ny, before) ==
    IF given THEN [saved EXCEPT !.map = IF r.fresh THEN saved.map ELSE r.pmap]
    ELSE IF r.outcome = "return"
    THEN [has |-> TRUE, K |-> weight, nx |-> nx, ny |-> ny, map |-> r.pmap,
          clean |-> AllFinite(before)]
    ELSE NoSaved

Record(op, given, weight, nx, ny, v, zz, r, before, kept) ==
    LET same == ~given /\ r.outcome = "return" /\ SameKey(weight, nx, ny)
    IN  [op |-> op, given |-> given, weight |-> weight, nx |-> nx, ny |-> ny,
         v |-> v, zz |-> zz,
         outcome |-> r.outcome, trace |-> r.trace, scale |-> r.scale,
         est |-> r.est, pmap |-> r.pmap, fresh |-> r.fresh,
         src_before |-> before,
         map_before |-> IF given THEN saved.map ELSE NoArr,
         map_after |-> IF given THEN kept.map ELSE NoArr,
         prev_same |-> same,
         prev_clean |-> same /\ saved.clean,
         prev_map |-> IF same THEN saved.map ELSE NoArr]

\* what a call leaves: the caller's array written through, its map variable,
\* the call's record
Called(op, given, weight, nx, ny, v, zz, r, before) ==
    /\ src' = r.src
    /\ saved' = Keep(given, r, weight, nx, ny, before)
    /\ last' = Record(op, given, weight, nx, ny, v, zz, r, before,
                      Keep(given, r, weight, nx, ny, before))

\* the decorrelation scales a caller passes: unset (0), one cell, the largest
ScaleInputs == {0, 1, MaxScale}

\* a call of oasurf with the values din, with the kept map or without one
OaSurf ==
    \E given \in BOOLEAN, weight \in -1..MaxK, nx \in ScaleInputs,
       ny \in ScaleInputs, din \in SrcValues(x.shape) :
       /\ given => SameKey(weight, nx, ny)
       /\ \E r \in {oasurf(x, y, din, xx, yy, given, saved.map, weight,
                           nx, ny)} :
            Called("oasurf", given, weight, nx, ny, NoArr, <<>>, r, din)
       /\ UNCHANGED <<x, y, xx, yy, gen, batch>>

\* a call of oavol with the depths and values in, with the kept map or
\* without one
OaVol ==
    \E given \in BOOLEAN, weight \in -1..MaxK, nx \in ScaleInputs,
       ny \in ScaleInputs, in \in VolData(x.shape) :
       /\ given => SameKey(weight, nx, ny)
       /\ \E r \in {oavol(x, y, in.z, in.v, xx, yy,
                          DstDepths(in.z.shape[1], xx.shape),
                          given, saved.map, weight, nx, ny)} :
            Called("oavol", given, weight, nx, ny, in.v,
                      <<in.z.shape[1]>> \o xx.shape, r, in.z)
       /\ UNCHANGED <<x, y, xx, yy, gen, batch>>

Next == OaSurf \/ OaVol

Spec == Init /\ [][Next]_vars

(***************************************************************************)
(* Construction of obsgen objects.                                         *)
(***************************************************************************)
oavars == <<x, y, xx, yy, src, saved, last>>

\* no objective analysis is going on
OaIdle ==
    /\ x = NoArr /\ y = NoArr /\ xx = NoArr /\ yy = NoArr
    /\ src = NoArr /\ saved = NoSaved /\ last = NoCall

MaxDt == 4

\* the grid arguments: the name of a grid file, or the grid
GridArgs == {GridFile("grid.nc"), GridOf("grid.nc")}

\* cls(grid, dt, reftime=reftime)
Construct ==
    \E cls \in Classes, grid \in GridArgs, dt \in 1..MaxDt,
       reftime \in {default_epoch, other_epoch} :
       /\ \E r \in {construct(cls, grid, dt, reftime)} :
            gen' = [cls |-> cls, grid |-> grid, dt |-> dt,
                    reftime |-> reftime, outcome |-> r.outcome,
                    obj |-> r.obj]
       /\ UNCHANGED <<oavars, batch>>

ObsgenInit == OaIdle /\ gen = NoGen /\ batch = NoBatch

ObsgenNext == Construct

ObsgenSpec == ObsgenInit /\ [][ObsgenNext]_vars

(***************************************************************************)
(* Runs of batch_files.                                                    *)
(***************************************************************************)
MaxFiles == 2

\* the lists of raw files
InFiles ==
    UNION { { [k \in 1..len |-> RawFile(k, kinds[k])] :
                kinds \in [1..len -> FileKinds] } : len \in 0..MaxFiles }

\* out_files for len input files: one name with a '#', a list with a name
\* per input, or (a caller's mistake) a list one name short
OutFiles(len) ==
    { [str |-> TRUE, name |-> Template, list |-> <<>>] } \cup
    { [str |-> FALSE, name |-> <<>>, list |-> SubSeq(OutNames, 1, m)] :
        m \in {len, len - 1} \cap Nat }

\* batch_files is called
BatchStart ==
    /\ batch.pc \in {"idle", "done"}
    /\ \E cls \in Receivers, files \in InFiles :
         \E out \in OutFiles(Len(files)) :
            batch' = batch_enter(cls, files, out)
    /\ UNCHANGED <<oavars, gen>>

\* the loop takes the next file
BatchStep ==
    /\ batch.pc = "loop"
    /\ batch.n <= Len(batch.in_files)
    /\ batch' = batch_iterate(batch)
    /\ UNCHANGED <<oavars, gen>>

\* the loop is over: batch_files returns None
BatchReturn ==
    /\ batch.pc = "loop"
    /\ batch.n > Len(batch.in_files)
    /\ batch' = [batch EXCEPT !.pc = "done"]
    /\ UNCHANGED <<oavars, gen>>

BatchInit == OaIdle /\ gen = NoGen /\ batch = NoBatch

BatchNext == BatchStart \/ BatchStep \/ BatchReturn

BatchSpec == BatchInit /\ [][BatchNext]_vars

(***************************************************************************)
(* Properties.                                                             *)
(***************************************************************************)
Called1   == last.op # "none"
IsSurf    == last.op = "oasurf"
IsVol     == last.op = "oavol"
Returned  == last.outcome = "return"
Invoked   == \E p \in 1..Len(last.trace) : last.trace[p] \in {"oa2d", "oa3d"}
Allocated == \E p \in 1..Len(last.trace) : last.trace[p] = "alloc"
HasNaN(a) == \E p \in 1..Len(a.flat) : a.flat[p] = NaN
NonZero(a) == \E p \in 1..Len(a.flat) : a.flat[p] # 0

\* C1 (as claimed): the estimate a returning call of oasurf or oavol gives
\* has the shape of the destination x array.
C1_ShapeOfDestX ==
    (Called1 /\ Returned) => last.est.shape = xx.shape

\* C1 (amended): the estimate of a returning oasurf has the shape of the
\* destination x array; the estimate of a returning oavol has the shape of
\* the destination depth array zz, which is (levels,) + the shape of xx.
C1_ShapeOfDestination ==
    /\ (IsSurf /\ Returned) => last.est.shape = xx.shape
    /\ (IsVol /\ Returned) =>
          /\ last.est.shape = last.zz
          /\ last.est.shape = <<last.src_before.shape[1]>> \o xx.shape
          /\ Len(last.est.data) = Prod(last.zz)

C1_Witness ==
    /\ IsVol /\ Returned
    /\ Len(xx.shape) = 2
    /\ last.est.shape = <<MaxLev>> \o xx.shape

\* the neighbours of destination point i in the returned map whose source
\* value is valid
Usable(i) ==
    {k \in 1..last.pmap.shape[2] :
        /\ last.pmap.flat[(i - 1) * last.pmap.shape[2] + k] # 0
        /\ last.src_before.flat[
               last.pmap.flat[(i - 1) * last.pmap.shape[2] + k]] # NaN}

WellFormedSurf ==
    IsSurf /\ last.weight >= 0 /\ Len(last.src_before.flat) = Len(x.flat)

C3_SuppliedMapReadOnly ==
    /\ (Called1 /\ last.given) =>
          /\ last.map_after = last.map_before
          /\ ~last.fresh /\ ~Allocated
          /\ Returned => last.pmap = last.map_before
    /\ (Called1 /\ ~last.given /\ Returned) =>
          /\ last.fresh /\ last.trace[1] = "alloc"
          /\ last.pmap.shape = <<size(xx), last.weight>>

C3_Witness ==
    /\ IsSurf /\ last.given /\ Returned
    /\ NonZero(last.map_before)
    /\ saved.map = last.map_before

C5_MapDeterministic ==
    last.prev_same => last.pmap = last.prev_map

C5_Witness ==
    /\ last.prev_same /\ last.prev_clean
    /\ HasNaN(last.src_before)
    /\ NonZero(last.pmap)

\* C6: oasurf given the map an earlier call returned for the same source
\* points, destination points, K and scales returns the estimate that the
\* same call without a map returns.
C6_ReuseTransparent ==
    (IsSurf /\ last.given) =>
        /\ last.outcome =
             oasurf(x, y, last.src_before, xx, yy, FALSE, NoArr,
                    last.weight, last.nx, last.ny).outcome
        /\ last.est =
             oasurf(x, y, last.src_before, xx, yy, FALSE, NoArr,
                    last.weight, last.nx, last.ny).est

C6_Witness ==
    /\ IsSurf /\ last.given /\ Returned
    /\ HasNaN(last.src_before)
    /\ \E i \in 1..Len(last.est.mask) : ~last.est.mask[i]
    /\ last.nx = 0 /\ last.ny # 0

\* C7: the scale pair handed to the numerical routine: with exactly one of
\* nx, ny zero, both are the non-zero one; with both non-zero, each is as
\* given.
C7_IsotropicFallback ==
    (Called1 /\ Invoked) =>
        /\ (last.nx = 0 /\ last.ny # 0) => last.scale = <<last.ny, last.ny>>
        /\ (last.nx # 0 /\ last.ny = 0) => last.scale = <<last.nx, last.nx>>
        /\ (last.nx # 0 /\ last.ny # 0) => last.scale = <<last.nx, last.ny>>

C7_Witness ==
    /\ IsVol /\ Invoked
    /\ last.nx = 0 /\ last.ny = MaxScale
    /\ last.scale = <<MaxScale, MaxScale>>

\* C8: the scale pair handed to the numerical routine is positive in both
\* axes; a call with both scales zero raises before a map is allocated or the
\* routine is invoked.
C8_ZeroScalesRejected ==
    Called1 =>
        /\ Invoked => (last.scale[1] > 0 /\ last.scale[2] > 0)
        /\ (last.nx = 0 /\ last.ny = 0) => (~Returned /\ last.trace = <<>>)

\* C9: a call with a neighbour count <= 0, or with source coordinates and
\* values of different lengths, raises before a map is allocated or the
\* numerical routine is invoked, and returns nothing.
C9_BadConfigRejected ==
    (Called1 /\ (last.weight <= 0
                 \/ (IsSurf /\ Len(last.src_before.flat) # Len(x.flat)))) =>
        (~Returned /\ last.trace = <<>>)

\* C10: oavol without a map returns, having allocated a (destination points
\* x K) map, built it once through oa2d and then run oa3d with it; oavol with
\* a map runs no build step.
C10_VolumeBuildsThenApplies ==
    /\ (IsVol /\ ~last.given /\ last.weight >= 0) =>
          /\ Returned
          /\ last.trace = <<"alloc", "oa2d", "oa3d">>
          /\ last.pmap.shape = <<size(xx), last.weight>>
    /\ (IsVol /\ last.given) => last.trace = <<"oa3d">>

\* the estimate oasurf gives, without a map, for the source values of the
\* single level of the last oavol call
SurfaceOfLevel ==
    oasurf(x, y, reshape(last.v, x.shape), xx, yy, FALSE, NoArr,
           last.weight, last.nx, last.ny)

\* C11: a call of oavol with a single vertical level and matching source and
\* destination depths returns, and its estimate is, point for point, the
\* estimate oasurf returns for that level's values over the same source and
\* destination points with the same K and scales.
C11_VolumeMatchesSurface ==
    (IsVol /\ last.weight >= 0 /\ last.src_before.shape[1] = 1
           /\ ~HasNaN(last.src_before)) =>
        /\ Returned
        /\ SurfaceOfLevel.outcome = "return"
        /\ last.est.data = SurfaceOfLevel.est.data
        /\ last.est.mask = SurfaceOfLevel.est.mask

\* destination point i lies on source point j
Coincide(i, j) == xx.flat[i] = x.flat[j] /\ yy.flat[i] = y.flat[j]

Succeeds(k) ==
    /\ batch.cls # "obsgen"
    /\ batch.in_files[k].kind = "obs"
    /\ batch.out.str \/ k <= Len(batch.out.list)

\* file k of the running batch ends in an exception
Fails(k) ==
    /\ batch.cls # "obsgen"
    /\ \/ batch.in_files[k].kind \in {"corrupt", "interrupt", "readonly"}
       \/ /\ batch.in_files[k].kind = "obs"
          /\ ~batch.out.str /\ k > Len(batch.out.list)

\* C13: batch_files never raises; it attempts the files once each in list
\* order, up to the last one; whatever happened to the files before it, a
\* file is written exactly when its own conversion and writing succeed, to
\* out_files[n] when out_files is a list, and is warned about exactly when
\* its own conversion or writing raises.
C13_BatchIsolatesFailures ==
    batch.pc # "idle" =>
        /\ batch.pc # "raised"
        /\ batch.n <= Len(batch.in_files) + 1
        /\ batch.printed = [k \in 1..(batch.n - 1) |-> k]
        /\ batch.pc = "done" => batch.n = Len(batch.in_files) + 1
        /\ \A k \in 1..(batch.n - 1) :
              /\ Cardinality({i \in 1..Len(batch.written) :
                                 batch.written[i].file = k})
                   = IF Succeeds(k) THEN 1 ELSE 0
              /\ Cardinality({i \in 1..Len(batch.warned) :
                                 batch.warned[i] = k})
                   = IF Fails(k) THEN 1 ELSE 0
        /\ \A i \in 1..Len(batch.written) :
              /\ batch.written[i].file < batch.n
              /\ ~batch.out.str =>
                   batch.written[i].target
                     = batch.out.list[batch.written[i].file]

C13_Witness ==
    /\ batch.pc = "done"
    /\ Len(batch.in_files) = MaxFiles
    /\ ~batch.out.str
    /\ batch.in_files[1].kind = "interrupt"
    /\ batch.warned = <<1>>
    /\ \E i \in 1..Len(batch.written) : batch.written[i].file = MaxFiles

\* C14: constructing obsgen or any converter with (grid, dt, reftime=r)
\* succeeds and gives an object of that class with epoch = r, dt = dt and
\* the grid set.
C14_ConvertersConstruct ==
    gen.cls # "none" =>
        /\ gen.outcome = "ok"
        /\ gen.obj.cls = gen.cls
        /\ gen.obj.epoch = gen.reftime
        /\ gen.obj.dt = gen.dt
        /\ gen.obj.grid = GridOf(gen.grid.name)

=============================================================================
